---- MODULE Spec2Model ----
(***************************************************************************)
(* A model of the HorseLinc API server: the Express/Mongoose controllers   *)
(* for payments, invoices, requests and horses, as state machines over the *)
(* stored documents.  Handlers that await are split at the awaits that read *)
(* or write stored documents; calls the code does not await become pending  *)
(* writes that complete later, in any order.                                *)
(***************************************************************************)
EXTENDS Integers, Sequences, FiniteSets, TLC

VARIABLES
  horses,      \* Horse collection: horse id -> [exists, owners]
  hresp,       \* last horse handler call: whether its _owners were off total, its response
  requests,    \* Request collection: request id -> document
  invoices,    \* Invoice collection: invoice id -> document
  payments,    \* Payment collection: set of payment documents
  tasks,       \* handler invocations in flight: slot -> frame
  last,        \* the frame of the handler that answered most recently
  pending,     \* writes started without await that have not completed yet
  nextPid,     \* next payment _id to hand out
  ops,         \* number of handler invocations started so far
  created,     \* invoices stored by invoice create
  pushes,      \* recipient lists of the invoice-submitted notifications sent
  csv,         \* a CSV export call: the requesting user, the invoices, the output
  call         \* a call of a function without stored state: arguments and result

vars == <<horses, hresp, requests, invoices, payments, tasks, last, pending, nextPid, ops,
          created, pushes, csv, call>>

None == "none"

----------------------------------------------------------------------------
(* Bounds *)

MaxOwners == 2      \* longest _owners list a horse request body carries
MaxOps == 2         \* handler invocations started in one behaviour

----------------------------------------------------------------------------
(* Horses: horse.model.js and horse.controller.js *)

HorseIds == {1, 2}
HorseUsers == {"u1"}
LegacyOwners == {"u1", "u2"}
Pcts == {25, 50, 75, 100}

OwnerEntries == [user : HorseUsers, percentage : Pcts]

OwnerLists == UNION {[1..n -> OwnerEntries] : n \in 0..MaxOwners}

RECURSIVE OwnerSum(_)
OwnerSum(owners) ==
  IF owners = <<>> THEN 0
  ELSE Head(owners).percentage + OwnerSum(Tail(owners))

\* The _owners list a call carries is non-empty and does not total 100.
OffTotal(owners) == Len(owners) > 0 /\ OwnerSum(owners) # 100

\* A validator that only rejects over-allocation.
OwnersValidAtMost(owners) ==
  IF Len(owners) > 0 THEN OwnerSum(owners) <= 100 ELSE TRUE

\* HorseSchema.path('_owners').validate: a non-empty list must sum to 100;
\* for an empty list the validator returns undefined, which Mongoose accepts.
OwnersValid(owners) ==
  IF Len(owners) > 0 THEN OwnerSum(owners) = 100 ELSE TRUE

\* A request body for the horse handlers: the whitelisted keys that matter
\* here are _owners (absent or a list) and the legacy single _owner.
HorseBodies ==
  {b \in [hasOwners : BOOLEAN, owners : OwnerLists,
          owner : LegacyOwners \cup {None, "multipleOwners"}] :
     ~b.hasOwners => b.owners = <<>>}

NoHorse == [exists |-> FALSE, owners |-> <<>>]

\* userIsEditingSingleOwner(updatedHorse, originalHorse)
userIsEditingSingleOwner(body, horse) ==
  /\ Len(horse.owners) = 1
  /\ body.owner # horse.owners[1].user

\* HorseController.create
HorseCreate(h, body) ==
  /\ ~horses[h].exists
  /\ IF body.owner # None
       THEN \* old app version: _owner sent
            /\ hresp' = [op |-> "create", horse |-> h, offTotal |-> OffTotal(body.owners), status |-> "error"]
            /\ UNCHANGED horses
       ELSE IF OwnersValid(body.owners)
         THEN /\ horses' = [horses EXCEPT ![h] = [exists |-> TRUE, owners |-> body.owners]]
              /\ hresp' = [op |-> "create", horse |-> h, offTotal |-> OffTotal(body.owners), status |-> "ok"]
         ELSE \* Horse.create rejects: ValidationError -> handleError
              /\ hresp' = [op |-> "create", horse |-> h, offTotal |-> OffTotal(body.owners), status |-> "invalid"]
              /\ UNCHANGED horses
  /\ UNCHANGED <<call, created, pushes, csv, requests, invoices, payments, tasks, last, pending, nextPid, ops>>

\* HorseController.update
HorseUpdate(h, body) ==
  /\ LET horse == horses[h]
         legacy == body.owner # None /\ body.owner # "multipleOwners"
         newOwners == IF body.hasOwners THEN body.owners ELSE horse.owners
     IN
     IF ~horse.exists
       THEN \* horse is null: horse._owners throws when a legacy _owner is sent
            /\ hresp' = [op |-> "update", horse |-> h, offTotal |-> OffTotal(body.owners),
                         status |-> IF legacy THEN "exception" ELSE "notfound"]
            /\ UNCHANGED horses
       ELSE IF legacy /\ Len(horse.owners) # 1
         THEN /\ hresp' = [op |-> "update", horse |-> h, offTotal |-> OffTotal(body.owners), status |-> "error"]
              /\ UNCHANGED horses
       ELSE IF legacy /\ userIsEditingSingleOwner(body, horse)
         THEN /\ hresp' = [op |-> "update", horse |-> h, offTotal |-> OffTotal(body.owners), status |-> "error"]
              /\ UNCHANGED horses
       ELSE IF OwnersValid(newOwners)
         THEN \* _.assign(horse, updatedHorse); await horse.save()
              /\ horses' = [horses EXCEPT ![h].owners = newOwners]
              /\ hresp' = [op |-> "update", horse |-> h, offTotal |-> OffTotal(body.owners), status |-> "ok"]
         ELSE /\ hresp' = [op |-> "update", horse |-> h, offTotal |-> OffTotal(body.owners), status |-> "invalid"]
              /\ UNCHANGED horses
  /\ UNCHANGED <<call, created, pushes, csv, requests, invoices, payments, tasks, last, pending, nextPid, ops>>

\* HorseController.updateMultipleOwners: horse.save() is not awaited, so a
\* validation failure is an unhandled rejection and the response is the stored
\* horse with status 200 either way.
HorseUpdateMultipleOwners(h, owners) ==
  /\ IF ~horses[h].exists
       THEN /\ hresp' = [op |-> "updateMultipleOwners", horse |-> h, offTotal |-> OffTotal(owners), status |-> "notfound"]
            /\ UNCHANGED horses
       ELSE /\ horses' = IF OwnersValid(owners)
                           THEN [horses EXCEPT ![h].owners = owners]
                           ELSE horses
            /\ hresp' = [op |-> "updateMultipleOwners", horse |-> h, offTotal |-> OffTotal(owners), status |-> "ok"]
  /\ UNCHANGED <<call, created, pushes, csv, requests, invoices, payments, tasks, last, pending, nextPid, ops>>

HorseCreateStep == \E h \in HorseIds, body \in HorseBodies : HorseCreate(h, body)
HorseUpdateStep == \E h \in HorseIds, body \in HorseBodies : HorseUpdate(h, body)
HorseUpdateMultipleOwnersStep ==
  \E h \in HorseIds, owners \in OwnerLists : HorseUpdateMultipleOwners(h, owners)

----------------------------------------------------------------------------
(* Users, requests, invoices and payments *)

Users == {"u1", "u2", "sp", "ra"}

\* Users whose stripeCustomerId is set and whose accountSetupComplete is true.
StripeCustomers == {"u1", "u2", "sp"}

RequestIds == {1, 2, 3}
InvoiceIds == {1, 2}

\* An _id that no stored invoice has.
NoInvoice == 0

Slots == {1, 2}

NoPayment == [id |-> 0, invoice |-> 0, payingUser |-> None, submittedBy |-> None,
              amount |-> 0, tip |-> 0, outside |-> FALSE, transactions |-> <<>>]

\* ownerPercentage(percentOfInvoice, amount); amounts are in cents and the
\* percentages and amounts used divide exactly.
ownerPercentage(percentOfInvoice, amount) == (percentOfInvoice * amount) \div 100

PaymentsOf(inv) == {p \in payments : p.invoice = inv}

SeqToSet(q) == {q[i] : i \in 1..Len(q)}

\* The frame of a handler invocation: its position and its local variables.
Idle == [op |-> "idle", pc |-> "idle", inv |-> NoInvoice, bodyId |-> 0, req |-> 0,
         P |-> None, U |-> None, bodySP |-> None,
         pct |-> 0, tip |-> 0, total |-> 0,
         snapReqs |-> <<>>, snapPU |-> <<>>, snapReass |-> {}, snapPaid |-> "unset",
         snapAmount |-> 0, snapTip |-> 0, snapDismissed |-> <<>>, status |-> "none",
         xfers |-> <<>>, runTotal |-> 0, pid |-> 0, idx |-> 0, failed |-> {},
         charge |-> "none", late |-> FALSE, resp |-> "none"]

Free(s) == tasks[s].pc = "idle"

\* A new invocation takes the lowest free slot.
CanStart(s) ==
  /\ ops < MaxOps
  /\ Free(s)
  /\ \A t \in Slots : t < s => ~Free(t)

Write(kind, id) == [kind |-> kind, id |-> id, val |-> NoPayment]

InitRequests ==
  [r \in RequestIds |->
    [total |-> IF r = 2 THEN 400 ELSE 200,
     serviceProvider |-> "sp",
     reassignedTo |-> IF r = 2 THEN "ra" ELSE None,
     paidAt |-> FALSE, deletedAt |-> FALSE,
     declinedAt |-> FALSE, acceptedAt |-> FALSE, completedAt |-> TRUE,
     declinedByHeadServiceProvider |-> FALSE,
     dismissedBy |-> <<>>,
     addedToInvoice |-> TRUE]]

\* The stored invoices: invoice 1 bills requests 1 and 2 to two owners, one of
\* whom has approved the other to pay up to a limit; invoice 2 bills request 3
\* to a single owner.
InitInvoices ==
  [i \in InvoiceIds |->
    IF i = 1
      THEN [amount |-> 600, tip |-> 0, paidInFullAt |-> "unset",
            paidOutsideAppAt |-> FALSE, deletedAt |-> FALSE,
            requests |-> <<1, 2>>,
            payingUsers |-> <<[user |-> "u1", percentage |-> 50],
                              [user |-> "u2", percentage |-> 50]>>,
            approvals |-> {[payer |-> "u1", approver |-> "u2",
                            isUnlimited |-> FALSE, maxAmount |-> 200]},
            serviceProvider |-> "sp", reassignees |-> {"ra"}]
      ELSE [amount |-> 200, tip |-> 0, paidInFullAt |-> "unset",
            paidOutsideAppAt |-> FALSE, deletedAt |-> FALSE,
            requests |-> <<3>>,
            payingUsers |-> <<[user |-> "u1", percentage |-> 100]>>,
            approvals |-> {},
            serviceProvider |-> "sp", reassignees |-> {}]]

\* No CSV export has been asked for.
NoCsv == [user |-> [id |-> None, roles |-> {}], invoices |-> <<>>, done |-> FALSE, out |-> <<>>]

\* The stored records before any call.
InitStore ==
  /\ horses = [h \in HorseIds |-> NoHorse]
  /\ hresp = [op |-> "none", horse |-> 0, offTotal |-> FALSE, status |-> "none"]
  /\ requests = InitRequests
  /\ invoices = InitInvoices
  /\ payments = {}
  /\ tasks = [s \in Slots |-> Idle]
  /\ last = Idle
  /\ pending = {}
  /\ nextPid = 1
  /\ ops = 0
  /\ created = {}
  /\ pushes = {}

\* No function call is under way.
NoCall == [op |-> "none"]

Init == InitStore /\ csv = NoCsv /\ call = NoCall

----------------------------------------------------------------------------
(* PaymentController.create *)

PayingUserInputs == Users \cup {None, "ghost"}
\* The authenticated user of a payment create: the paying user, u2 for u1
\* (whom u1 has approved on invoice 1), u1 for anyone else.
Submitters(P) ==
  IF P = "u1" THEN {"u1", "u2"}
  ELSE IF P = "u2" THEN {"u2"}
  ELSE {"u1"}
\* The percentOfInvoice a body carries: the payer's percentage on the invoice
\* as the client shows it, 100 for anyone else.
PercentInputs(inv, P) ==
  IF inv \in InvoiceIds
       /\ \E k \in 1..Len(invoices[inv].payingUsers) : invoices[inv].payingUsers[k].user = P
    THEN {invoices[inv].payingUsers[k].percentage :
            k \in {j \in 1..Len(invoices[inv].payingUsers) :
                     invoices[inv].payingUsers[j].user = P}}
    ELSE {100}
TipInputs == {0, 20}
\* The _serviceProvider a body carries: the invoice's main service provider as
\* the client shows it; u2's client, when a tip is given, may also name the
\* provider a request was reassigned to.
ServiceProviderInputs(P, tip) ==
  IF P = "u2" /\ tip > 0 THEN {"sp", "ra"} ELSE {"sp"}
ChargeOutcomes == {"ok", "throw", "failmsg"}

\* The handler in slot s answers: its frame is kept as the last answer.
Finish(s, f, resp) ==
  /\ tasks' = [tasks EXCEPT ![s] = Idle]
  /\ last' = [f EXCEPT !.pc = "done", !.resp = resp]

\* The handler in slot s goes on to its next await.
Continue(s, f) ==
  /\ tasks' = [tasks EXCEPT ![s] = f]
  /\ UNCHANGED last

\* A handler that runs without a stored frame answers.
Answer(f, resp) ==
  /\ last' = [f EXCEPT !.pc = "done", !.resp = resp]
  /\ UNCHANGED tasks

\* Lines 344-401: find the invoice, reject a deleted invoice and a body without
\* _payingUser, find the paying user and check the Stripe customer setup.
PCLoad(s, inv, P, U, pct, tip, sp) ==
  /\ CanStart(s)
  /\ ops' = ops + 1
  /\ LET e == [Idle EXCEPT !.op = "create", !.inv = inv]
         f0 == [e EXCEPT !.P = P, !.U = U, !.bodySP = sp, !.pct = pct, !.tip = tip]
     IN
     IF inv \notin InvoiceIds
       THEN \* invoice is null: invoice.deletedAt throws, handleError answers
            Finish(s, e, "exception")
       ELSE LET i == invoices[inv]
                f == [f0 EXCEPT !.total = i.amount,
                                !.snapReqs = i.requests,
                                !.snapPU = i.payingUsers,
                                !.snapReass = i.reassignees,
                                !.snapPaid = i.paidInFullAt,
                                !.snapAmount = i.amount,
                                !.snapTip = i.tip]
            IN
            IF i.deletedAt
              THEN Finish(s, e, "err:deleted")
            ELSE IF P = None
              THEN Finish(s, e, "err:upgrade")
            ELSE IF P \notin Users
              THEN Finish(s, e, "err:nouser")
            ELSE IF P \notin StripeCustomers
              THEN Finish(s, e, "err:stripe")
            ELSE Continue(s, [f EXCEPT !.pc = "check"])
  /\ UNCHANGED <<call, created, pushes, csv, horses, hresp, requests, invoices, payments, pending, nextPid>>

\* Lines 403-411: no other payment for this invoice with the same _payingUser.
PreviousPaymentsForUser(inv, P) ==
  {p \in payments : p.invoice = inv /\ p.payingUser = P}

PCCheck(s) ==
  /\ tasks[s].op = "create" /\ tasks[s].pc = "check"
  /\ LET f == tasks[s] IN
     IF PreviousPaymentsForUser(f.inv, f.P) # {}
       THEN Finish(s, f, "err:duplicate")
       ELSE Continue(s, [f EXCEPT !.pc = "insert"])
  /\ UNCHANGED <<call, created, pushes, csv, horses, hresp, requests, invoices, payments, pending, nextPid, ops>>

\* Lines 367-381 and 413-417: Payment.create(newPayment).
NewPayment(f, id) ==
  [id |-> id, invoice |-> f.inv, payingUser |-> f.P, submittedBy |-> f.U,
   amount |-> ownerPercentage(f.pct, f.total),
   tip |-> ownerPercentage(f.pct, f.tip),
   outside |-> FALSE, transactions |-> <<>>]

PCInsert(s) ==
  /\ tasks[s].op = "create" /\ tasks[s].pc = "insert"
  /\ payments' = payments \cup {NewPayment(tasks[s], nextPid)}
  /\ nextPid' = nextPid + 1
  /\ Continue(s, [tasks[s] EXCEPT !.pc = "charge", !.pid = nextPid])
  /\ UNCHANGED <<call, created, pushes, csv, horses, hresp, requests, invoices, pending, ops>>

\* Lines 446-462: the destination of a request's transfer.
DestinationAccount(r) ==
  IF requests[r].reassignedTo # None
    THEN requests[r].reassignedTo
    ELSE requests[r].serviceProvider

\* Lines 429-474: one pending transfer per request of the invoice, from the
\* request as stored now.
RequestTransfer(f, r) ==
  [request |-> r,
   dest |-> DestinationAccount(r),
   reassigned |-> requests[r].reassignedTo # None,
   amount |-> ownerPercentage(f.pct, requests[r].total)]

\* Lines 476-490: the tip transfer, to the invoice's main service provider,
\* only when the payment's tip is greater than 0.
TipTransfers(f, payee) ==
  IF ownerPercentage(f.pct, f.tip) > 0
    THEN << [request |-> 0, dest |-> payee, reassigned |-> FALSE,
            amount |-> ownerPercentage(f.pct, f.tip)] >>
    ELSE <<>>

\* A transfer list that pays the tip before the requests.
PendingTransfersTipFirst(f) ==
  TipTransfers(f, invoices[f.inv].serviceProvider)
    \o [k \in 1..Len(f.snapReqs) |-> RequestTransfer(f, f.snapReqs[k])]

PendingTransfers(f) ==
  [k \in 1..Len(f.snapReqs) |-> RequestTransfer(f, f.snapReqs[k])]
    \o TipTransfers(f, invoices[f.inv].serviceProvider)

\* STRIPE_SERVICE_FEE_PERCENTAGE, as a percentage.
ServiceFeePercent == 5

\* Lines 434-444 and 476-480: a request adds its share plus the service fee to
\* the running total, the tip adds itself.
ChargeShare(x) ==
  IF x.request = 0 THEN x.amount
  ELSE x.amount + (x.amount * ServiceFeePercent) \div 100

RECURSIVE RunningInvoiceTotal(_)
RunningInvoiceTotal(q) ==
  IF q = <<>> THEN 0 ELSE ChargeShare(Head(q)) + RunningInvoiceTotal(Tail(q))

\* Lines 733-756: the catch block: the payment is removed and the invoice's
\* paidInFullAt reset, neither call awaited; the caller gets an error.
\* The invoice save writes paidInFullAt only when null differs from the value
\* the handler loaded.
ChargeFailureWrites(f) ==
  {Write("removePayment", f.pid)}
    \cup (IF f.snapPaid = "null" THEN {} ELSE {Write("invPaidNull", f.inv)})

\* Lines 774-785: mark each request paid when the handler's invoice document
\* has paidInFullAt; the saves are started in a forEach and not awaited.
RequestPaidWrites(f) == {Write("reqPaid", r) : r \in SeqToSet(f.snapReqs)}

\* Lines 428-516: build the transfers, then the single Stripe charge.
PCCharge(s, outcome) ==
  /\ tasks[s].op = "create" /\ tasks[s].pc = "charge"
  /\ LET f == [tasks[s] EXCEPT !.xfers = PendingTransfers(tasks[s]),
                               !.runTotal = RunningInvoiceTotal(PendingTransfers(tasks[s])),
                               !.charge = outcome]
     IN
     CASE outcome = "ok" ->
            /\ Continue(s, [f EXCEPT !.pc = IF Len(f.xfers) = 0 THEN "finish"
                                              ELSE "transfer"])
            /\ UNCHANGED pending
       [] outcome = "throw" ->
            /\ Finish(s, f, "err:charge")
            /\ pending' = pending \cup ChargeFailureWrites(f)
       [] outcome = "failmsg" ->
            \* charge.failure_message is set: the if at line 516 is skipped and
            \* the handler goes on to the success response
            /\ Finish(s, f, IF f.snapPaid = "set" THEN "ok:paidInFull" ELSE "ok:success")
            /\ pending' = IF f.snapPaid = "set"
                            THEN pending \cup RequestPaidWrites(f)
                            ELSE pending
  /\ UNCHANGED <<call, created, pushes, csv, horses, hresp, requests, invoices, payments, nextPid, ops>>

\* A finally block that records a transfer token whether or not the transfer
\* was made.
TransactionAlwaysToken(f, k, ok) ==
  [type |-> IF f.xfers[k].request = 0 THEN "tip" ELSE "request",
   request |-> f.xfers[k].request,
   dest |-> f.xfers[k].dest,
   serviceProvider |-> IF f.xfers[k].request = 0 THEN f.bodySP ELSE f.xfers[k].dest,
   transferId |-> k,
   transactionId |-> f.pid]

\* Lines 642-684: the finally block records the transfer on the payment,
\* whether it worked or not. dest is the account the transfer was sent to;
\* serviceProvider is the transaction's _serviceProvider: the request's
\* reassignee or provider for a request, the body's _serviceProvider for the tip.
Transaction(f, k, ok) ==
  [type |-> IF f.xfers[k].request = 0 THEN "tip" ELSE "request",
   request |-> f.xfers[k].request,
   dest |-> f.xfers[k].dest,
   serviceProvider |-> IF f.xfers[k].request = 0 THEN f.bodySP ELSE f.xfers[k].dest,
   transferId |-> IF ok THEN k ELSE 0,
   transactionId |-> f.pid]

RecordTransaction(f, k, ok) ==
  {IF p.id = f.pid
     THEN [p EXCEPT !.transactions = Append(@, Transaction(f, k, ok))]
     ELSE p : p \in payments}

\* Lines 521-685: the next transfer under the charge.
PCTransfer(s, ok) ==
  /\ tasks[s].op = "create" /\ tasks[s].pc = "transfer"
  /\ LET f == tasks[s]
         k == f.idx + 1
     IN
     /\ payments' = RecordTransaction(f, k, ok)
     /\ Continue(s, [f EXCEPT !.idx = k,
                               !.failed = IF ok THEN @ ELSE @ \cup {k},
                               !.pc = IF k = Len(f.xfers) THEN "finish" ELSE "transfer"])
  /\ UNCHANGED <<call, created, pushes, csv, horses, hresp, requests, invoices, pending, nextPid, ops>>

\* Lines 424-426 and 450-459: the keys of reasigneeTransferAmounts.
ReassigneeKeys(f) ==
  {f.xfers[k].dest : k \in {j \in 1..Len(f.xfers) : f.xfers[j].reassigned}}

\* Lines 701-708: reasigneeTransferAmounts[reassignee._id].toFixed(2) throws for
\* a reassignee of the invoice to whom none of its requests is reassigned.
ReassigneePushThrows(f) == \E u \in f.snapReass : u \notin ReassigneeKeys(f)

\* Lines 710-725: tip on the first payment, paidInFullAt on the last one.
InvoiceAfterPayment(i, f, count) ==
  [i EXCEPT !.tip = IF count = 1 THEN f.tip ELSE @,
            !.paidInFullAt = IF count = Len(f.snapPU) THEN "set" ELSE @]

\* Lines 686-790: after the transfers: notifications, the invoice update and
\* the response.
PCFinish(s) ==
  /\ tasks[s].op = "create" /\ tasks[s].pc = "finish"
  /\ LET f == tasks[s]
         count == Cardinality(PaymentsOf(f.inv))
         paid == f.snapPaid = "set" \/ count = Len(f.snapPU)
     IN
     IF ReassigneePushThrows(f)
       THEN \* the TypeError is caught by the catch block of the charge
            /\ Finish(s, [f EXCEPT !.late = TRUE], "err:charge")
            /\ pending' = pending \cup ChargeFailureWrites(f)
            /\ UNCHANGED invoices
       ELSE /\ invoices' = [invoices EXCEPT ![f.inv] = InvoiceAfterPayment(@, f, count)]
            /\ IF f.failed # {}
                 THEN /\ Finish(s, f, "caution")
                      /\ UNCHANGED pending
                 ELSE IF paid
                   THEN /\ Finish(s, f, "ok:paidInFull")
                        /\ pending' = pending \cup RequestPaidWrites(f)
                   ELSE /\ Finish(s, f, "ok:success")
                        /\ UNCHANGED pending
  /\ UNCHANGED <<call, created, pushes, csv, horses, hresp, requests, payments, nextPid, ops>>

----------------------------------------------------------------------------
(* PaymentController.markAsPaid *)

MarkUsers == {"sp", "u1"}

\* Lines 800-816: find the invoice, reject one already paid and a caller who
\* is not its main service provider.
MPLoad(s, inv, U) ==
  /\ CanStart(s)
  /\ ops' = ops + 1
  /\ LET f0 == [Idle EXCEPT !.op = "markAsPaid", !.inv = inv, !.U = U] IN
     IF inv \notin InvoiceIds
       THEN Finish(s, f0, "err:upgrade")
       ELSE LET i == invoices[inv] IN
            IF i.paidInFullAt = "set"
              THEN Finish(s, f0, "err:alreadyPaid")
            ELSE IF U # i.serviceProvider
              THEN Finish(s, f0, "err:unauthorized")
            ELSE Continue(s, [f0 EXCEPT !.pc = "mark",
                                        !.snapReqs = i.requests,
                                        !.snapPU = i.payingUsers,
                                        !.snapAmount = i.amount,
                                        !.snapTip = i.tip])
  /\ UNCHANGED <<call, created, pushes, csv, horses, hresp, requests, invoices, payments, pending, nextPid>>

\* Lines 818-831: completedInvoicePayers holds the _payingUser ids of the
\* invoice's payments, and each payer is looked up in it as
\* String(payingUser._user).  _payingUsers._user is populated, so that string is
\* the printed user document and never an id: every payer is outstanding.
OutstandingInvoicePayers(f, invoicePayments) ==
  {k \in 1..Len(f.snapPU) : TRUE}

\* Lines 834-847: the payment created for an outstanding payer.
OutsidePayment(f, k, id) ==
  [id |-> id, invoice |-> f.inv, payingUser |-> f.snapPU[k].user,
   submittedBy |-> None,
   amount |-> ownerPercentage(f.snapPU[k].percentage, f.snapAmount),
   tip |-> ownerPercentage(f.snapPU[k].percentage, f.snapTip),
   outside |-> TRUE, transactions |-> <<>>]

\* Lines 818-893: the payments, the invoice save and the request saves are all
\* started without await; the handler then answers with the invoice.
MPMark(s) ==
  /\ tasks[s].op = "markAsPaid" /\ tasks[s].pc = "mark"
  /\ LET f == tasks[s]
         out == OutstandingInvoicePayers(f, PaymentsOf(f.inv))
         n == Cardinality(out)
         rank(k) == Cardinality({j \in out : j < k})
     IN
     /\ pending' = pending
          \cup {[kind |-> "createPayment", id |-> nextPid + rank(k),
                 val |-> OutsidePayment(f, k, nextPid + rank(k))] : k \in out}
          \cup {Write("invMarkPaid", f.inv)}
          \cup RequestPaidWrites(f)
     /\ nextPid' = nextPid + n
     /\ Finish(s, f, "ok")
  /\ UNCHANGED <<call, created, pushes, csv, horses, hresp, requests, invoices, payments, ops>>

----------------------------------------------------------------------------
(* InvoiceController.destroy *)

\* Lines 838-850: find the invoice; only its main service provider may delete.
IDLoad(s, inv, U) ==
  /\ CanStart(s)
  /\ ops' = ops + 1
  /\ LET f0 == [Idle EXCEPT !.op = "destroy", !.inv = inv, !.U = U] IN
     IF inv \notin InvoiceIds
       THEN Finish(s, f0, "notfound")
       ELSE LET i == invoices[inv] IN
            IF i.serviceProvider # U
              THEN Finish(s, f0, "err:unauthorized")
              ELSE Continue(s, [f0 EXCEPT !.pc = "destroy", !.snapReqs = i.requests])
  /\ UNCHANGED <<call, created, pushes, csv, horses, hresp, requests, invoices, payments, pending, nextPid>>

\* Lines 852-869: refuse when a payment exists; otherwise set deletedAt on the
\* invoice and on each of its requests, none of the saves awaited.
IDDestroy(s) ==
  /\ tasks[s].op = "destroy" /\ tasks[s].pc = "destroy"
  /\ LET f == tasks[s] IN
     IF PaymentsOf(f.inv) # {}
       THEN /\ Finish(s, f, "err:hasPayment")
            /\ UNCHANGED pending
       ELSE /\ Finish(s, f, "ok")
            /\ pending' = pending
                 \cup {Write("invDeleted", f.inv)}
                 \cup {Write("reqDeleted", r) : r \in SeqToSet(f.snapReqs)}
  /\ UNCHANGED <<call, created, pushes, csv, horses, hresp, requests, invoices, payments, nextPid, ops>>

----------------------------------------------------------------------------
(* Writes started without await *)

\* A pending write reaches the database.  A document save writes the paths the
\* handler modified, not the whole document.
Flush(w) ==
  /\ w \in pending
  /\ pending' = pending \ {w}
  /\ payments' =
       CASE w.kind = "removePayment" -> {p \in payments : p.id # w.id}
         [] w.kind = "createPayment" -> payments \cup {w.val}
         [] OTHER -> payments
  /\ invoices' =
       CASE w.kind = "invPaidNull" -> [invoices EXCEPT ![w.id].paidInFullAt = "null"]
         [] w.kind = "invDeleted" -> [invoices EXCEPT ![w.id].deletedAt = TRUE]
         [] w.kind = "invMarkPaid" ->
              [invoices EXCEPT ![w.id].paidInFullAt = "set",
                               ![w.id].paidOutsideAppAt = TRUE]
         [] OTHER -> invoices
  /\ requests' =
       CASE w.kind = "reqPaid" -> [requests EXCEPT ![w.id].paidAt = TRUE]
         [] w.kind = "reqDeleted" -> [requests EXCEPT ![w.id].deletedAt = TRUE]
         [] w.kind = "reqAdded" -> [requests EXCEPT ![w.id].addedToInvoice = TRUE]
         [] OTHER -> requests
  /\ UNCHANGED <<call, created, pushes, csv, horses, hresp, tasks, last, nextPid, ops>>

----------------------------------------------------------------------------
(* InvoiceController.update *)

NewTotals == {200, 280}

\* The _requests of an invoice update body: each entry carries the request's
\* _id and its services, kept here as the total the handler computes from them
\* (the sum of rate * (quantity || 1)).
BodyRequestLists ==
  {<< [id |-> r, total |-> t] >> : r \in RequestIds, t \in NewTotals}
    \cup {<< [id |-> 1, total |-> t], [id |-> 2, total |-> t] >> : t \in NewTotals}

RECURSIVE NewInvoiceTotal(_)
NewInvoiceTotal(q) ==
  IF q = <<>> THEN 0
  ELSE (IF Head(q).id \in RequestIds THEN Head(q).total ELSE 0)
         + NewInvoiceTotal(Tail(q))

\* Lines 528-543: every request named in the body gets the body's services and
\* the total computed from them.
RequestsAfterInvoiceUpdate(breqs) ==
  [r \in RequestIds |->
    IF \E k \in 1..Len(breqs) : breqs[k].id = r
      THEN [requests[r] EXCEPT !.total =
              breqs[CHOOSE k \in 1..Len(breqs) :
                      breqs[k].id = r /\ \A j \in k+1..Len(breqs) : breqs[j].id # r].total]
      ELSE requests[r]]

\* Line 520: the payments looked up are those of the body's _id.
InvoiceUpdateBlocked(id, bodyId) == PaymentsOf(bodyId) # {}

\* Lines 548-552: _.assign(invoice, updatedInvoice); invoice.save().  The
\* assign replaces the document's _id by the body's _id when the body carries
\* one; which stored invoice the save then writes depends on the Mongoose
\* release, so either may be.
SavedInvoiceIds(id, bodyId) == IF bodyId = 0 THEN {id} ELSE {id, bodyId}

InvoiceUpdate(id, bodyId, breqs) ==
  /\ ops < MaxOps
  /\ ops' = ops + 1
  /\ LET f == [Idle EXCEPT !.op = "invoiceUpdate", !.inv = id, !.bodyId = bodyId] IN
     IF InvoiceUpdateBlocked(id, bodyId)
       THEN /\ Answer(f, "err:hasPayment")
            /\ UNCHANGED <<requests, invoices>>
       ELSE /\ requests' = RequestsAfterInvoiceUpdate(breqs)
            /\ IF id \notin InvoiceIds
                 THEN /\ Answer(f, "notfound")
                      /\ UNCHANGED invoices
                 ELSE /\ Answer(f, "ok")
                      /\ \E target \in SavedInvoiceIds(id, bodyId) :
                           invoices' =
                             [invoices EXCEPT ![target] =
                               [@ EXCEPT !.amount = NewInvoiceTotal(breqs),
                                         !.requests = [k \in 1..Len(breqs) |-> breqs[k].id]]]
  /\ UNCHANGED <<call, created, pushes, csv, horses, hresp, payments, pending, nextPid>>

----------------------------------------------------------------------------
(* UserController.updatePaymentApproval *)

MaxAmounts == {200, 500}

\* Lines 986-1006: the outstanding invoices that carry
\* this approver and this payer get the approval's new limit.
ApprovalMatches(i, payer, approver) ==
  /\ i.paidInFullAt # "set"
  /\ ~i.paidOutsideAppAt
  /\ \E a \in i.approvals : a.approver = approver
  /\ \E a \in i.approvals : a.payer = payer

UpdatedApprovals(i, payer, approver, isUnlimited, maxAmount) ==
  {IF a.payer = payer /\ a.approver = approver
     THEN [a EXCEPT !.isUnlimited = isUnlimited, !.maxAmount = maxAmount]
     ELSE a : a \in i.approvals}

UpdatePaymentApproval(payer, approver, isUnlimited, maxAmount) ==
  /\ ops < MaxOps
  /\ ops' = ops + 1
  /\ Answer([Idle EXCEPT !.op = "updatePaymentApproval", !.U = payer], "ok")
  /\ invoices' =
       [i \in InvoiceIds |->
         IF ApprovalMatches(invoices[i], payer, approver)
           THEN [invoices[i] EXCEPT !.approvals =
                   UpdatedApprovals(invoices[i], payer, approver, isUnlimited, maxAmount)]
           ELSE invoices[i]]
  /\ UNCHANGED <<call, created, pushes, csv, horses, hresp, requests, payments, pending, nextPid>>

----------------------------------------------------------------------------
(* RequestController: update, updateStatus, dismiss, destroy, destroyMultiple *)

\* An _id that may or may not name a stored request.
RequestIdInputs == RequestIds \cup {0}
RequestUsers == {"sp", "ra", "u1"}
Statuses == {"accept", "complete", "decline", "leave"}

\* The body of a request update: the provider, the reassignee and the services
\* (kept as the total computed from them).
RequestBodies ==
  [serviceProvider : {"sp"}, reassignedTo : {None, "ra", "sp"}, total : NewTotals]

isMainServiceProvider(user, request) ==
  IF request.reassignedTo = None
    THEN user = request.serviceProvider
    ELSE user = request.serviceProvider /\ user # request.reassignedTo

isReassignedServiceProvider(user, request) ==
  IF request.reassignedTo = None THEN FALSE
  ELSE user # request.serviceProvider /\ user = request.reassignedTo

\* Lines 915-923: the paid check reads the request named by the body's _id.
RequestUpdatePaid(id, bodyId) == requests[bodyId].paidAt

\* Lines 925-1001: the document saved over the request at req.params.id.
UpdatedRequest(id, bodyId, body) ==
  LET original == requests[bodyId]
      hasNewServiceProvider == original.serviceProvider # body.serviceProvider
      hasNewReassignee ==
        /\ body.reassignedTo # None
        /\ body.reassignedTo # body.serviceProvider
        /\ original.reassignedTo # body.reassignedTo
      hasOriginalProviderAsReassignee ==
        body.reassignedTo # None /\ body.reassignedTo = body.serviceProvider
      reset == hasNewServiceProvider \/ hasNewReassignee \/ hasOriginalProviderAsReassignee
  IN [requests[id] EXCEPT
        !.serviceProvider = body.serviceProvider,
        !.reassignedTo = IF hasOriginalProviderAsReassignee THEN None ELSE body.reassignedTo,
        !.total = body.total,
        !.declinedAt = IF reset THEN FALSE ELSE @,
        !.acceptedAt = IF reset THEN FALSE ELSE @]

RequestUpdate(id, bodyId, body) ==
  /\ ops < MaxOps
  /\ ops' = ops + 1
  /\ LET f == [Idle EXCEPT !.op = "requestUpdate", !.req = id, !.bodyId = bodyId] IN
     IF bodyId \notin RequestIds
       THEN \* originalRequest is null: originalRequest.paidAt throws
            /\ Answer(f, "exception")
            /\ UNCHANGED requests
     ELSE IF RequestUpdatePaid(id, bodyId)
       THEN /\ Answer(f, "err:paid")
            /\ UNCHANGED requests
     ELSE IF id \notin RequestIds
       THEN /\ Answer(f, "notfound")
            /\ UNCHANGED requests
     ELSE /\ Answer(f, "ok")
          /\ requests' = [requests EXCEPT ![id] = UpdatedRequest(id, bodyId, body)]
  /\ UNCHANGED <<call, created, pushes, csv, horses, hresp, invoices, payments, pending, nextPid>>

\* Lines 1093-1097, 1113-1117, 1128-1132, 1204-1208: add the user to
\* _dismissedBy unless already there.
Dismissed(request, user) ==
  IF \E k \in 1..Len(request.dismissedBy) : request.dismissedBy[k] = user
    THEN request
    ELSE [request EXCEPT !.dismissedBy = Append(@, user)]

\* Lines 1076-1135: the request after updateStatus.
StatusUpdated(request, status, user) ==
  CASE status = "accept" -> [request EXCEPT !.acceptedAt = TRUE]
    [] status = "complete" -> [request EXCEPT !.completedAt = TRUE]
    [] status = "decline" ->
         [Dismissed(request, user) EXCEPT
            !.declinedAt = TRUE,
            !.declinedByHeadServiceProvider =
               IF isMainServiceProvider(user, request) THEN TRUE ELSE @]
    [] status = "leave" ->
         IF isMainServiceProvider(user, request)
           THEN [Dismissed(request, user) EXCEPT
                   !.declinedAt = TRUE, !.declinedByHeadServiceProvider = TRUE]
         ELSE IF isReassignedServiceProvider(user, request)
           THEN [Dismissed(request, user) EXCEPT
                   !.declinedAt = TRUE, !.acceptedAt = FALSE]
         ELSE request

RequestUpdateStatus(id, status, user) ==
  /\ ops < MaxOps
  /\ ops' = ops + 1
  /\ LET f == [Idle EXCEPT !.op = "updateStatus", !.req = id, !.U = user] IN
     IF id \notin RequestIds
       THEN /\ Answer(f, "notfound")
            /\ UNCHANGED requests
       ELSE /\ Answer(f, "ok")
            /\ requests' = [requests EXCEPT ![id] = StatusUpdated(@, status, user)]
  /\ UNCHANGED <<call, created, pushes, csv, horses, hresp, invoices, payments, pending, nextPid>>

\* Lines 1197-1218
RequestDismiss(id, user) ==
  /\ ops < MaxOps
  /\ ops' = ops + 1
  /\ LET f == [Idle EXCEPT !.op = "dismiss", !.req = id, !.U = user] IN
     IF id \notin RequestIds
       THEN /\ Answer(f, "notfound")
            /\ UNCHANGED requests
       ELSE /\ Answer(f, "ok")
            /\ requests' = [requests EXCEPT ![id] = Dismissed(@, user)]
  /\ UNCHANGED <<call, created, pushes, csv, horses, hresp, invoices, payments, pending, nextPid>>

\* Lines 1224-1271
RequestDestroy(id) ==
  /\ ops < MaxOps
  /\ ops' = ops + 1
  /\ LET f == [Idle EXCEPT !.op = "requestDestroy", !.req = id] IN
     IF id \notin RequestIds
       THEN /\ Answer(f, "notfound")
            /\ UNCHANGED requests
       ELSE /\ Answer(f, "ok")
            /\ requests' = [requests EXCEPT ![id].deletedAt = TRUE]
  /\ UNCHANGED <<call, created, pushes, csv, horses, hresp, invoices, payments, pending, nextPid>>

\* Lines 1276-1295: the saves are started in a forEach and not awaited.
RequestDestroyMultiple(ids) ==
  /\ ops < MaxOps
  /\ ops' = ops + 1
  /\ LET f == [Idle EXCEPT !.op = "destroyMultiple"]
         found == ids \cap RequestIds
     IN
     IF found = {}
       THEN /\ Answer(f, "notfound")
            /\ UNCHANGED pending
       ELSE /\ Answer(f, "ok")
            /\ pending' = pending \cup {Write("reqDeleted", r) : r \in found}
  /\ UNCHANGED <<call, created, pushes, csv, horses, hresp, requests, invoices, payments, nextPid>>

----------------------------------------------------------------------------
(* Specifications *)

PCLoadStep ==
  \E s \in Slots, inv \in InvoiceIds \cup {NoInvoice}, P \in PayingUserInputs,
     tip \in TipInputs :
       \E U \in Submitters(P), pct \in PercentInputs(inv, P),
          sp \in ServiceProviderInputs(P, tip) :
            PCLoad(s, inv, P, U, pct, tip, sp)
PCCheckStep == \E s \in Slots : PCCheck(s)
PCInsertStep == \E s \in Slots : PCInsert(s)
PCChargeStep == \E s \in Slots, outcome \in ChargeOutcomes : PCCharge(s, outcome)
PCTransferStep == \E s \in Slots, ok \in BOOLEAN : PCTransfer(s, ok)
PCFinishStep == \E s \in Slots : PCFinish(s)
MPLoadStep ==
  \E s \in Slots, inv \in InvoiceIds \cup {NoInvoice}, U \in MarkUsers : MPLoad(s, inv, U)
MPMarkStep == \E s \in Slots : MPMark(s)
IDLoadStep ==
  \E s \in Slots, inv \in InvoiceIds \cup {NoInvoice}, U \in MarkUsers : IDLoad(s, inv, U)
IDDestroyStep == \E s \in Slots : IDDestroy(s)
FlushStep == \E w \in pending : Flush(w)
InvoiceUpdateStep ==
  \E id \in InvoiceIds \cup {NoInvoice}, bodyId \in InvoiceIds \cup {0},
     breqs \in BodyRequestLists : InvoiceUpdate(id, bodyId, breqs)
UpdatePaymentApprovalStep ==
  \E isUnlimited \in BOOLEAN, maxAmount \in MaxAmounts :
     UpdatePaymentApproval("u1", "u2", isUnlimited, maxAmount)
RequestUpdateStep ==
  \E id \in RequestIdInputs, bodyId \in RequestIdInputs, body \in RequestBodies :
     RequestUpdate(id, bodyId, body)
RequestUpdateStatusStep ==
  \E id \in RequestIdInputs, status \in Statuses, user \in RequestUsers :
     RequestUpdateStatus(id, status, user)
RequestDismissStep ==
  \E id \in RequestIdInputs, user \in RequestUsers : RequestDismiss(id, user)
RequestDestroyStep == \E id \in RequestIdInputs : RequestDestroy(id)
RequestDestroyMultipleStep ==
  \E ids \in SUBSET RequestIdInputs : RequestDestroyMultiple(ids)

\* Payments and invoices: payment create, markAsPaid, invoice destroy and
\* update, the approval update and the request update, interleaved.
Next ==
  \/ PCLoadStep
  \/ PCCheckStep
  \/ PCInsertStep
  \/ PCChargeStep
  \/ PCTransferStep
  \/ PCFinishStep
  \/ MPLoadStep
  \/ MPMarkStep
  \/ IDLoadStep
  \/ IDDestroyStep
  \/ InvoiceUpdateStep
  \/ UpdatePaymentApprovalStep
  \/ RequestUpdateStep
  \/ FlushStep

Spec == Init /\ [][Next]_vars

\* Requests: the request handlers with markAsPaid and the invoice update.
NextRequest ==
  \/ MPLoadStep
  \/ MPMarkStep
  \/ FlushStep
  \/ InvoiceUpdateStep
  \/ RequestUpdateStep
  \/ RequestUpdateStatusStep
  \/ RequestDismissStep
  \/ RequestDestroyStep
  \/ RequestDestroyMultipleStep

SpecRequest == Init /\ [][NextRequest]_vars

\* Horses: create, update and updateMultipleOwners.
NextHorse ==
  \/ HorseCreateStep
  \/ HorseUpdateStep
  \/ HorseUpdateMultipleOwnersStep

SpecHorse == Init /\ [][NextHorse]_vars

----------------------------------------------------------------------------
(* Properties *)

\* No handler is in flight and no write is outstanding.
Quiet == pending = {} /\ \A s \in Slots : tasks[s] = Idle

PayersOf(i) == {invoices[i].payingUsers[k].user : k \in 1..Len(invoices[i].payingUsers)}

\* C1: whenever no handler is running and no write is outstanding, an invoice
\* whose paidInFullAt is set has a payment from each user in its _payingUsers.
C1_PaidInFullHasEveryPayer ==
  Quiet =>
    \A i \in InvoiceIds :
      invoices[i].paidInFullAt = "set" =>
        \A u \in PayersOf(i) : \E p \in payments : p.invoice = i /\ p.payingUser = u

\* C2: in every state, under any interleaving of invoice destroy with payment
\* create and markAsPaid, no invoice has deletedAt set while a payment
\* references it.
C2_NoDeletedInvoiceWithPayment ==
  \A i \in InvoiceIds : invoices[i].deletedAt => PaymentsOf(i) = {}

\* A step of the invoice update handler.
IsInvoiceUpdate == ops' = ops + 1 /\ tasks' = tasks /\ last'.op = "invoiceUpdate"

\* C3: an invoice update addressed to an invoice that a payment references is
\* rejected and changes neither that invoice nor the total of any request.
C3_UpdateRejectedOncePaid ==
  [][(IsInvoiceUpdate /\ last'.inv \in InvoiceIds /\ PaymentsOf(last'.inv) # {})
       => /\ last'.resp = "err:hasPayment"
          /\ invoices'[last'.inv] = invoices[last'.inv]
          /\ \A r \in RequestIds : requests'[r].total = requests[r].total]_vars

\* C4: once a request's paidAt is set, no step changes any field of the stored
\* request.
C4_PaidRequestFrozen ==
  [][\A r \in RequestIds : requests[r].paidAt => requests'[r] = requests[r]]_vars

\* The payment create that answered last, and the payment it inserted.
LastIsCreate == last.op = "create" /\ last.pid # 0

LastPayment == {p \in payments : p.id = last.pid}

\* C5: a payment create whose charge threw or came back with a failure_message
\* answers with an error, has issued no transfer, and its payment is gone once
\* the removal has completed.
C5_FailedChargeRollsBack ==
  (LastIsCreate /\ last.charge \in {"throw", "failmsg"}) =>
    /\ last.resp = "err:charge"
    /\ last.idx = 0
    /\ Write("removePayment", last.pid) \in pending \/ LastPayment = {}

\* C6: a payment create whose charge succeeded and which had a failed transfer
\* has attempted every transfer and answers 200 with the cautionary message.
C6_FailedTransferIsCaution ==
  (LastIsCreate /\ last.charge = "ok" /\ last.failed # {}) =>
    /\ last.idx = Len(last.xfers)
    /\ last.resp = "caution"

\* The transactions of the kind given, as positions in the list.
EntriesOfType(p, type) ==
  {k \in 1..Len(p.transactions) : p.transactions[k].type = type}

\* C7: after a payment create whose charge succeeded, the payment's
\* transactions are one 'request' entry per request of the invoice the handler
\* loaded, in order, plus one 'tip' entry iff the payment's tip is positive;
\* each entry carries the charge id, and its transferId is empty exactly when
\* that transfer failed.
C7_TransactionsPerRequest ==
  (LastIsCreate /\ last.charge = "ok") =>
    \A p \in LastPayment :
      /\ Cardinality(EntriesOfType(p, "request")) = Len(last.snapReqs)
      /\ \A k \in 1..Len(last.snapReqs) :
           /\ k \in EntriesOfType(p, "request")
           /\ p.transactions[k].request = last.snapReqs[k]
      /\ Cardinality(EntriesOfType(p, "tip")) = IF p.tip > 0 THEN 1 ELSE 0
      /\ Len(p.transactions)
           = Cardinality(EntriesOfType(p, "request")) + Cardinality(EntriesOfType(p, "tip"))
      /\ \A k \in 1..Len(p.transactions) :
           /\ p.transactions[k].transactionId = last.pid
           /\ (p.transactions[k].transferId = 0) <=> (k \in last.failed)

\* C7 witness: a create on the two-request invoice with a tip has answered
\* after one transfer failed and another was made.
C7_Witness ==
  /\ LastIsCreate /\ last.charge = "ok"
  /\ Len(last.snapReqs) = 2
  /\ \E p \in LastPayment :
       /\ p.tip > 0
       /\ Len(p.transactions) = 3
       /\ \E j, k \in 1..3 :
            p.transactions[j].transferId = 0 /\ p.transactions[k].transferId # 0

\* C8: once an invoice has paidInFullAt set, no step changes its amount, tip,
\* _requests or _payingUsers, or clears paidInFullAt.
C8_PaidInvoiceFrozen ==
  [][\A i \in InvoiceIds :
       invoices[i].paidInFullAt = "set" =>
         /\ invoices'[i].paidInFullAt = "set"
         /\ invoices'[i].amount = invoices[i].amount
         /\ invoices'[i].tip = invoices[i].tip
         /\ invoices'[i].requests = invoices[i].requests
         /\ invoices'[i].payingUsers = invoices[i].payingUsers]_vars

\* The submitter may pay for the paying user on the invoice as stored.
MayPayFor(p) ==
  \/ p.submittedBy = p.payingUser
  \/ \E a \in invoices[p.invoice].approvals :
       /\ a.payer = p.payingUser
       /\ a.approver = p.submittedBy
       /\ a.isUnlimited \/ a.maxAmount >= p.amount

\* C9: payment create inserts a payment for paying user P submitted by U only
\* if U is P or the invoice holds an approval of U by P that is unlimited or
\* covers the amount.
C9_OnlyApprovedSubmitters ==
  [][\A p \in payments' \ payments : ~p.outside => MayPayFor(p)]_vars

\* C10: every stored horse with a non-empty _owners list has owner percentages
\* that sum to exactly 100.
C10_OwnersSumTo100 ==
  \A h \in HorseIds :
    (horses[h].exists /\ Len(horses[h].owners) > 0) => OwnerSum(horses[h].owners) = 100

\* C10 witness: an update or updateMultipleOwners has stored a list of two
\* owners.
C10_Witness ==
  /\ hresp.op \in {"update", "updateMultipleOwners"}
  /\ hresp.status = "ok"
  /\ horses[hresp.horse].exists
  /\ Len(horses[hresp.horse].owners) = 2

\* C11: a horse create, update or updateMultipleOwners call that carried a
\* non-empty owners list not summing to 100 is not answered with success.
C11_BadOwnersRejected == hresp.offTotal => hresp.status # "ok"

\* The request the k-th transfer of a create is for: the invoice's requests in
\* the order the handler loaded them, then 0 for the tip.
ExpectedRequest(f, k) == IF k <= Len(f.snapReqs) THEN f.snapReqs[k] ELSE 0

\* C12: every step that changes a payment's transactions is a step of the one
\* create that inserted the payment, taken after its charge succeeded; it
\* appends exactly one transaction, the next in the order of the invoice's
\* requests with the tip last, and the handler's count of finished transfers
\* moves on by one with it, so the next transfer starts after this one is saved.
C12_TransfersAfterChargeInOrder ==
  [][\A p \in payments : \A q \in payments' :
       (q.id = p.id /\ q.transactions # p.transactions) =>
         \E s \in Slots :
           LET f == tasks[s]
               k == f.idx + 1
           IN
           /\ f.op = "create" /\ f.pid = p.id /\ f.charge = "ok"
           /\ Len(p.transactions) = f.idx
           /\ Len(q.transactions) = k
           /\ \A j \in 1..f.idx : q.transactions[j] = p.transactions[j]
           /\ q.transactions[k].request = ExpectedRequest(f, k)
           /\ q.transactions[k].type = (IF k <= Len(f.snapReqs) THEN "request" ELSE "tip")
           /\ k <= Len(f.snapReqs) + 1
           /\ tasks'[s].idx = k
           /\ \A t \in Slots \ {s} : tasks'[t] = tasks[t]]_vars

\* C12 witness: a payment on the two-request invoice holds its two request
\* transactions followed by the tip transaction.
C12_Witness ==
  \E p \in payments :
    /\ p.invoice = 1
    /\ Len(p.transactions) = 3
    /\ p.transactions[1].request = 1
    /\ p.transactions[2].request = 2
    /\ p.transactions[3].type = "tip"

\* C13: when a create builds its transfers, each request's transfer goes to
\* the request's _reassignedTo user when one is set and otherwise to its
\* _serviceProvider, and the tip to the invoice's main service provider; each
\* transaction then recorded was sent to its transfer's destination and names
\* that user as _serviceProvider.
C13_TransactionNamesDestination ==
  [][\A s \in Slots :
       LET f == tasks[s]
           g == tasks'[s]
       IN
       /\ (f.op = "create" /\ f.pc = "charge" /\ g.charge = "ok") =>
            \A k \in 1..Len(g.xfers) :
              g.xfers[k].dest = IF g.xfers[k].request = 0
                                  THEN invoices[f.inv].serviceProvider
                                  ELSE DestinationAccount(g.xfers[k].request)
       /\ (f.op = "create" /\ f.pc = "transfer") =>
            \A q \in payments' :
              (q.id = f.pid /\ Len(q.transactions) = g.idx /\ g.idx = f.idx + 1) =>
                /\ q.transactions[g.idx].dest = f.xfers[g.idx].dest
                /\ q.transactions[g.idx].serviceProvider = q.transactions[g.idx].dest]_vars

\* C14: a payment create, markAsPaid or invoice destroy that addressed an
\* invoice that does not exist was answered 404.
C14_MissingRecordIs404 ==
  (last.op \in {"create", "markAsPaid", "destroy"} /\ last.inv \notin InvoiceIds)
    => last.resp = "notfound"

----------------------------------------------------------------------------
(* Invoice.convertAllToCsv (invoice.model.js)
   Text is a sequence of one-character strings; CR and LF stand for the
   carriage return and the line feed. Amounts are in cents. *)

MaxInvoices == 2    \* longest list of invoices handed to one export

CR == "CR"
LF == "LF"

\* String.prototype.slice(0, -n)
Slice(s, n) == SubSeq(s, 1, IF Len(s) > n THEN Len(s) - n ELSE 0)

\* String.prototype.trim()
RECURSIVE TrimLeft(_)
TrimLeft(s) ==
  IF s # <<>> /\ Head(s) \in {" ", CR, LF} THEN TrimLeft(Tail(s)) ELSE s
RECURSIVE TrimRight(_)
TrimRight(s) ==
  IF s # <<>> /\ s[Len(s)] \in {" ", CR, LF} THEN TrimRight(Slice(s, 1)) ELSE s
Trim(s) == TrimRight(TrimLeft(s))

DigitChar(d) ==
  CASE d = 0 -> "0" [] d = 1 -> "1" [] d = 2 -> "2" [] d = 3 -> "3" [] d = 4 -> "4"
    [] d = 5 -> "5" [] d = 6 -> "6" [] d = 7 -> "7" [] d = 8 -> "8" [] d = 9 -> "9"
RECURSIVE DigitsOf(_)
DigitsOf(n) == IF n < 10 THEN <<DigitChar(n)>> ELSE Append(DigitsOf(n \div 10), DigitChar(n % 10))

\* Number.prototype.toFixed(2) of an amount given in cents
ToFixed2(c) == DigitsOf(c \div 100) \o <<".", DigitChar((c \div 10) % 10), DigitChar(c % 10)>>

HORSE_MANAGER == "horse manager"
SERVICE_PROVIDER == "service provider"
isManager(user) == HORSE_MANAGER \in user.roles
isServiceProvider(user) == SERVICE_PROVIDER \in user.roles

\* The name of a user, a horse or a service: text without a comma.
NameOf(id) ==
  CASE id = "u1" -> <<"A", "n", "n">>
    [] id = "u2" -> <<"B", "o", " ", "L", "i">>
    [] id = "sp" -> <<"C", "y">>
    [] id = "ra" -> <<"D", "i">>
    [] OTHER -> <<"N">>

\* Lines 163-168: addServiceFee, the fee rounded to cents.
addServiceFee(amount) == amount + (amount * ServiceFeePercent + 50) \div 100

\* Lines 150-157
isReassignedToUser(inv, user) == \E k \in 1..Len(inv.reassignees) : inv.reassignees[k] = user.id

\* Lines 217-222
getPaymentType(inv) ==
  IF inv.paid # "no" THEN <<"C", "O", "M", "P", "L", "E", "T", "E">> ELSE <<"O", "U", "T",
        "S", "T", "A", "N", "D", "I", "N", "G">>

\* moment's 'L' format of a day of September 2019
FormatL(day) == <<"0", "9", "/">> \o <<DigitChar(day \div 10), DigitChar(day % 10)>> \o <<"/",
      "2", "0", "1", "9">>

\* Lines 225-232, for invoices created after the migration date.
getInvoiceDate(inv) == FormatL(inv.createdDay)

\* Lines 235-242
getPaymentDate(inv) ==
  IF inv.paid = "no" THEN <<"1", "2", "/", "3", "1", "/", "9", "9", "9",
        "9">> ELSE FormatL(inv.paidDay)

\* The total of the requests in the list that are reassigned to the user.
RECURSIVE ReassignedTotal(_, _, _)
ReassignedTotal(reqs, user, k) ==
  IF k > Len(reqs) THEN 0
  ELSE (IF reqs[k].reassignedTo = user.id THEN reqs[k].total ELSE 0)
         + ReassignedTotal(reqs, user, k + 1)

\* Lines 245-262
getInvoiceTotal(inv, user) ==
  IF ~isReassignedToUser(inv, user) /\ inv.amount # 0
    THEN IF isManager(user) THEN ToFixed2(addServiceFee(inv.amount)) ELSE ToFixed2(inv.amount)
  ELSE IF isReassignedToUser(inv, user)
    THEN ToFixed2(ReassignedTotal(inv.requests, user, 1))
  ELSE <<"0">>

\* Lines 265-271
getInvoiceTip(inv, user) ==
  IF inv.tip # 0 /\ ~isReassignedToUser(inv, user) THEN ToFixed2(inv.tip) ELSE <<"0">>

\* Lines 277-300: over the payments stored for the invoice; a payment's
\* _requests are the requests of its invoice.
RECURSIVE TotalPaid(_, _, _)
TotalPaid(inv, user, k) ==
  IF k > Len(inv.payments) THEN 0
  ELSE LET p == inv.payments[k] IN
       (IF ~isReassignedToUser(inv, user)
          THEN (IF isManager(user) THEN addServiceFee(p.amount) ELSE p.amount) + p.tip
          ELSE ReassignedTotal(inv.requests, user, 1))
         + TotalPaid(inv, user, k + 1)
getTotalAmountPaid(inv, user) == ToFixed2(TotalPaid(inv, user, 1))

\* Lines 44-48
getPayingUser(inv, id) == \E k \in 1..Len(inv.payingUsers) : inv.payingUsers[k] = id

\* Lines 309-342
AmountPaidByUser(inv, id, forManager, requestingUser) ==
  LET mine == {k \in 1..Len(inv.payments) : inv.payments[k].payingUser = id} IN
  IF ~getPayingUser(inv, id) \/ mine = {} THEN 0
  ELSE LET p == inv.payments[CHOOSE k \in mine : \A j \in mine : k <= j] IN
       IF ~isReassignedToUser(inv, requestingUser)
         THEN (IF forManager THEN addServiceFee(p.amount) ELSE p.amount) + p.tip
         ELSE ReassignedTotal(inv.requests, requestingUser, 1)
getAmountPaidByUser(inv, id, forManager, requestingUser) ==
  ToFixed2(AmountPaidByUser(inv, id, forManager, requestingUser))

\* Lines 347-368
RECURSIVE PayersText(_, _, _)
PayersText(inv, user, k) ==
  IF k > Len(inv.payingUsers) THEN <<>>
  ELSE NameOf(inv.payingUsers[k]) \o <<" ", "(">>
         \o getAmountPaidByUser(inv, inv.payingUsers[k], isManager(user), user)
         \o <<" ", "p", "a", "i", "d", ")", ";", " ">> \o PayersText(inv, user, k + 1)
getInvoicePayers(inv, user) ==
  IF Len(inv.payingUsers) # 0 THEN Slice(PayersText(inv, user, 1), 2) ELSE <<"N", "/", "A">>

\* Lines 370-376
RECURSIVE NamesText(_, _)
NamesText(ids, k) ==
  IF k > Len(ids) THEN <<>> ELSE NameOf(ids[k]) \o <<";", " ">> \o NamesText(ids, k + 1)
getPayerNames(inv) == Slice(NamesText(inv.payingUsers, 1), 2)

\* Lines 379-381
getMainServiceProviderName(inv) ==
  IF inv.spNamed THEN NameOf(inv.serviceProvider) ELSE <<"N", "/", "A">>

\* Lines 384-395
getReassigneeNames(inv) ==
  IF Len(inv.reassignees) # 0 THEN Slice(NamesText(inv.reassignees, 1), 2) ELSE <<"N", "/",
        "A">>

\* Lines 437-446: the services of one request.
RECURSIVE ServicesText(_, _, _)
ServicesText(svcs, user, k) ==
  IF k > Len(svcs) THEN <<>>
  ELSE LET q == IF svcs[k].quantity = 0 THEN 1 ELSE svcs[k].quantity
           rate == IF isManager(user) THEN addServiceFee(q * svcs[k].rate) ELSE q * svcs[k].rate
       IN
       <<"S", "h", "o", "e", "i", "n", "g", " ", "(", "x">> \o DigitsOf(q) \o <<")", ":",
             " ">> \o ToFixed2(rate) \o <<";", " ">>
         \o ServicesText(svcs, user, k + 1)

\* Lines 422-454
RECURSIVE HorsesText(_, _, _)
HorsesText(inv, user, k) ==
  IF k > Len(inv.requests) THEN <<>>
  ELSE LET r == inv.requests[k] IN
       (IF ~isReassignedToUser(inv, user) \/ r.reassignedTo = user.id
          THEN <<"S", "e", "r", "v", "i", "c",
                "e">> \o (IF Len(r.services) = 1 THEN <<>> ELSE <<"s">>)
                 \o (IF r.horse THEN <<" ", "f", "o", "r", " ", "S", "t", "a", "r", " ", "(",
                       "S", "u", "n", "n", "y", ")", " ", "-", " ">>
                                ELSE <<" ", "f", "o", "r", " ", "[", "H", "O", "R", "S", "E",
                                      " ", "D", "E", "L", "E", "T", "E", "D", " ", "F", "R",
                                            "O", "M", " ", "A", "P", "P", "]", " ", "-", " ">>)
                 \o ServicesText(r.services, user, 1)
          ELSE <<>>)
         \o HorsesText(inv, user, k + 1)
getHorsesAndServices(inv, user) ==
  IF Len(inv.requests) # 0 THEN Slice(HorsesText(inv, user, 1), 2) ELSE <<"N", "/", "A">>

\* Lines 458-473
RECURSIVE InstructionsText(_, _)
InstructionsText(inv, k) ==
  IF k > Len(inv.requests) THEN <<>>
  ELSE (IF inv.requests[k].instructions THEN <<"G", "o", " ", "s", "l", "o", "w", ".", ".",
        ".", " ">> ELSE <<>>)
         \o InstructionsText(inv, k + 1)
getRequestInstructions(inv) ==
  IF Len(inv.requests) # 0
    THEN LET t == InstructionsText(inv, 1) IN IF Len(t) > 1 THEN Slice(t, 4) ELSE t
    ELSE <<"N", "/", "A">>

\* Lines 477-491
RECURSIVE NotesText(_, _)
NotesText(inv, k) ==
  IF k > Len(inv.requests) THEN <<>>
  ELSE (IF inv.requests[k].providerNotes THEN <<"L", "e", "f", "t", " ", "h", "i", "n", "d",
        ".", ".", ".", " ">> ELSE <<>>)
         \o NotesText(inv, k + 1)
getRequestProviderNotes(inv) ==
  IF Len(inv.requests) # 0
    THEN LET t == NotesText(inv, 1) IN IF Len(t) > 1 THEN Slice(t, 4) ELSE t
    ELSE <<"N", "/", "A">>

\* Lines 401-419
getConcatenatedDescription(inv, user) ==
  LET d1 == <<"\"">> \o getHorsesAndServices(inv, user) \o <<".", ".", ".", " ">>
      d2 == IF getRequestInstructions(inv) # <<>>
              THEN d1 \o <<"I", "n", "s", "t", "r", "u", "c", "t", "i", "o", "n", "s", ":",
                    " ">> \o getRequestInstructions(inv) \o <<".", ".", ".", " ">>
              ELSE d1
      d3 == IF isServiceProvider(user) /\ getRequestProviderNotes(inv) # <<>>
              THEN d2 \o <<"N", "o", "t", "e", "s", ":",
                    " ">> \o getRequestProviderNotes(inv) \o <<".", ".", ".", " ">>
              ELSE d2
      d4 == d3 \o <<"P", "a", "y", "e",
            "r">> \o (IF Len(inv.payingUsers) = 1 THEN <<>> ELSE <<"s">>)
               \o <<":", " ">> \o getPayerNames(inv) \o <<".", ".", ".", " ">>
  IN Slice(d4, 4) \o <<"\"">>

\* The row as built at lines 196-209, before the trailing comma is clipped.
RowOutput(inv, user) ==
  getPaymentType(inv) \o <<",">>
    \o getInvoiceDate(inv) \o <<",">>
    \o getPaymentDate(inv) \o <<",">>
    \o getInvoiceTotal(inv, user) \o <<",">>
    \o getInvoiceTip(inv, user) \o <<",">>
    \o getTotalAmountPaid(inv, user) \o <<",">>
    \o (IF isManager(user)
          THEN getAmountPaidByUser(inv, user.id, isManager(user), user) \o <<",">>
          ELSE <<>>)
    \o getInvoicePayers(inv, user) \o <<",">>
    \o (IF isManager(user) THEN getMainServiceProviderName(inv) \o <<",">> ELSE <<>>)
    \o getReassigneeNames(inv) \o <<",">>
    \o getConcatenatedDescription(inv, user) \o <<",">>

\* A row whose trailing comma is left in place.
toCsvRowUnclipped(inv, user) == RowOutput(inv, user)

\* Lines 175-214
toCsvRow(inv, user) == Slice(RowOutput(inv, user), 1)

\* Lines 575-582
getCsvHeaders(user) ==
  IF isManager(user)
    THEN <<"P", "a", "y", "m", "e", "n", "t", " ", "T", "y", "p", "e", ",", " ", "I", "n",
          "v", "o", "i", "c", "e", " ", "D", "a", "t", "e", ",", " ", "P", "a", "y", "m", "e",
                "n", "t", " ", "D", "a", "t", "e", ",", " ", "I", "n", "v", "o", "i", "c",
                      "e", " ", "T", "o", "t", "a", "l", ",", " ", "T", "i", "p", " ", "A",
                            "m", "o", "u", "n", "t", ",", " ", "T", "o", "t", "a", "l", " ",
                                  "A", "m", "o", "u", "n", "t", " ", "P", "a", "i", "d", ",",
                                        " ", "A", "m", "o", "u", "n", "t", " ", "P", "a", "i",
                                              "d", " ", "B", "y", " ", "M", "e", ",", " ",
                                                    "P", "a", "i", "d", " ", "B", "y", ",",
                                                          " ", "S", "e", "r", "v", "i", "c",
                                                                "e", " ", "P", "r", "o", "v",
                                                                      "i", "d", "e", "r", ",",
                                                                            " ", "R", "e",
                                                                                  "a", "s",
                                                                                        "s",
                                                                                              "i", "g", "n", "e", "d", " ", "T", "o", ",", " ", "D", "e", "s", "c", "r", "i", "p", "t", "i", "o", "n">> \o <<CR, LF>>
    ELSE <<"P", "a", "y", "m", "e", "n", "t", " ", "T", "y", "p", "e", ",", " ", "I", "n",
          "v", "o", "i", "c", "e", " ", "D", "a", "t", "e", ",", " ", "P", "a", "y", "m", "e",
                "n", "t", " ", "D", "a", "t", "e", ",", " ", "I", "n", "v", "o", "i", "c",
                      "e", " ", "T", "o", "t", "a", "l", ",", " ", "T", "i", "p", " ", "A",
                            "m", "o", "u", "n", "t", ",", " ", "T", "o", "t", "a", "l", " ",
                                  "A", "m", "o", "u", "n", "t", " ", "P", "a", "i", "d", ",",
                                        " ", "P", "a", "i", "d", " ", "B", "y", ",", " ", "R",
                                              "e", "a", "s", "s", "i", "g", "n", "e", "d",
                                                    " ", "T", "o", ",", " ", "D", "e", "s",
                                                          "c", "r", "i", "p", "t", "i", "o",
                                                                "n">> \o <<CR, LF>>

\* Lines 555-562: the sort key, newest first: the invoice date for a manager,
\* the payment date for anyone else (an unpaid invoice counts as 12/31/9999).
SortDay(inv, user) ==
  IF isManager(user) THEN inv.createdDay
  ELSE IF inv.paid = "no" THEN 99 ELSE inv.paidDay

\* The orders the sorted tuples can come out in: Promise.map pushes the rows in
\* the order they finish, and the sort keeps tuples of equal date as pushed.
SortedOrders(invs, user) ==
  {o \in [1..Len(invs) -> 1..Len(invs)] :
     /\ \A i, j \in 1..Len(invs) : i # j => o[i] # o[j]
     /\ \A i, j \in 1..Len(invs) :
          i < j => SortDay(invs[o[i]], user) >= SortDay(invs[o[j]], user)}

RECURSIVE RowsText(_, _, _, _)
RowsText(invs, user, o, k) ==
  IF k > Len(invs) THEN <<>>
  ELSE toCsvRow(invs[o[k]], user) \o <<CR, LF>> \o RowsText(invs, user, o, k + 1)

\* Lines 542-572
convertAllToCsv(invs, user, o) == Trim(getCsvHeaders(user) \o RowsText(invs, user, o, 1))

\* The users who ask for an export: a horse manager, the main service
\* provider, a provider some requests are reassigned to, a user with both
\* roles, and a user with the default role.
CsvUsers ==
  {[id |-> "u1", roles |-> {HORSE_MANAGER}],
   [id |-> "sp", roles |-> {SERVICE_PROVIDER}],
   [id |-> "ra", roles |-> {SERVICE_PROVIDER}],
   [id |-> "u2", roles |-> {HORSE_MANAGER, SERVICE_PROVIDER}],
   [id |-> "ad", roles |-> {"user"}]}

CsvShapes == {"empty", "plain", "reassigned"}
CsvPaid == {"no", "app", "outside"}
CsvTips == {0, 2000}

PlainRequest ==
  [reassignedTo |-> None, total |-> 10000, horse |-> TRUE,
   services |-> <<[rate |-> 10000, quantity |-> 0]>>,
   instructions |-> TRUE, providerNotes |-> TRUE]
TwoServiceRequest ==
  [reassignedTo |-> None, total |-> 10000, horse |-> FALSE,
   services |-> <<[rate |-> 2500, quantity |-> 2], [rate |-> 5000, quantity |-> 0]>>,
   instructions |-> FALSE, providerNotes |-> FALSE]
ReassignedRequest ==
  [reassignedTo |-> "ra", total |-> 10000, horse |-> TRUE,
   services |-> <<>>,
   instructions |-> FALSE, providerNotes |-> TRUE]

\* An invoice as the export finds it, populated, with the payments stored
\* for it: without requests or payers, with one request and one payer, or
\* with two requests, one of them reassigned, and two payers.
CsvInvoice(shape, paid, tip) ==
  [paid |-> paid,
   createdDay |-> IF shape = "empty" THEN 10 ELSE 12,
   paidDay |-> 20,
   amount |-> CASE shape = "empty" -> 0 [] shape = "plain" -> 10000 [] OTHER -> 20000,
   tip |-> tip,
   serviceProvider |-> "sp",
   spNamed |-> shape # "empty",
   payingUsers |-> CASE shape = "empty" -> <<>> [] shape = "plain" -> <<"u1">>
                     [] OTHER -> <<"u1", "u2">>,
   reassignees |-> IF shape = "reassigned" THEN <<"ra">> ELSE <<>>,
   requests |-> CASE shape = "empty" -> <<>> [] shape = "plain" -> <<PlainRequest>>
                  [] OTHER -> <<TwoServiceRequest, ReassignedRequest>>,
   payments |->
     CASE shape = "empty" -> <<>>
       [] shape = "plain" ->
            IF paid = "app" THEN <<[payingUser |-> "u1", amount |-> 10000, tip |-> tip]>>
            ELSE <<>>
       [] OTHER ->
            IF paid = "outside" THEN <<>>
            ELSE IF paid = "no"
              THEN <<[payingUser |-> "u1", amount |-> 10000, tip |-> tip \div 2]>>
            ELSE <<[payingUser |-> "u1", amount |-> 10000, tip |-> tip \div 2],
                   [payingUser |-> "u2", amount |-> 10000, tip |-> tip \div 2]>>]

CsvInvoices == {CsvInvoice(shape, paid, tip) : shape \in CsvShapes, paid \in CsvPaid, tip \in CsvTips}

CsvCalls ==
  {[user |-> u, invoices |-> invs, done |-> FALSE, out |-> <<>>] :
     u \in CsvUsers, invs \in UNION {[1..n -> CsvInvoices] : n \in 1..MaxInvoices}}

\* invoice.controller.js line 1020: the export of a non-empty list.
ExportToCsv(o) ==
  /\ ~csv.done
  /\ Len(csv.invoices) > 0
  /\ o \in SortedOrders(csv.invoices, csv.user)
  /\ csv' = [csv EXCEPT !.done = TRUE,
                        !.out = convertAllToCsv(csv.invoices, csv.user, o)]
  /\ UNCHANGED <<horses, hresp, requests, invoices, payments, tasks, last, pending,
                 nextPid, ops, created, pushes, call>>

ExportToCsvStep == \E o \in [1..Len(csv.invoices) -> 1..Len(csv.invoices)] : ExportToCsv(o)

\* CSV export over every requesting user and every list of invoices.
InitCsv == InitStore /\ csv \in CsvCalls /\ call = NoCall
NextCsv == ExportToCsvStep
SpecCsv == InitCsv /\ [][NextCsv]_vars

\* The text split at every occurrence of the character c.
RECURSIVE SplitOn(_, _)
SplitOn(s, c) ==
  IF \A i \in 1..Len(s) : s[i] # c THEN <<s>>
  ELSE LET i == CHOOSE i \in 1..Len(s) : s[i] = c /\ \A j \in 1..(i - 1) : s[j] # c
       IN <<SubSeq(s, 1, i - 1)>> \o SplitOn(SubSeq(s, i + 1, Len(s)), c)

\* The text split at every CR LF.
RECURSIVE CsvLines(_)
CsvLines(s) ==
  LET B == {i \in 1..(Len(s) - 1) : s[i] = CR /\ s[i + 1] = LF} IN
  IF B = {} THEN <<s>>
  ELSE LET i == CHOOSE i \in B : \A j \in B : i <= j
       IN <<SubSeq(s, 1, i - 1)>> \o CsvLines(SubSeq(s, i + 2, Len(s)))

HasColumn(H, name) == \E k \in 1..Len(H) : TrimLeft(H[k]) = name

\* One header line, one row per invoice, no row ending in a comma, every row
\* with as many fields as the header.
CsvRowsMatchHeader ==
  LET L == CsvLines(csv.out)
      H == SplitOn(L[1], ",")
  IN
  /\ Len(L) = 1 + Len(csv.invoices)
  /\ \A k \in 2..Len(L) :
       /\ L[k] # <<>>
       /\ L[k][Len(L[k])] # ","
       /\ Len(SplitOn(L[k], ",")) = Len(H)

\* The header has n columns, with or without the two manager columns.
CsvHeaderIs(n, managerColumns) ==
  LET H == SplitOn(CsvLines(csv.out)[1], ",") IN
  /\ Len(H) = n
  /\ HasColumn(H, <<"A", "m", "o", "u", "n", "t", " ", "P", "a", "i", "d", " ", "B", "y", " ",
        "M", "e">>) = managerColumns
  /\ HasColumn(H, <<"S", "e", "r", "v", "i", "c", "e", " ", "P", "r", "o", "v", "i", "d", "e",
        "r">>) = managerColumns

C16_OnePaymentPerPayer ==
  \A p, q \in payments :
    (~p.outside /\ ~q.outside /\ p.invoice = q.invoice /\ p.payingUser = q.payingUser)
      => p.id = q.id

\* C17: once a payment create that set paidInFullAt on its invoice has
\* answered and every write it started has landed, every request the invoice
\* lists has paidAt set, whether or not one of its transfers failed.
C17_PaidInvoiceRequestsPaid ==
  (/\ Quiet
   /\ LastIsCreate /\ last.charge = "ok" /\ ~last.late
   /\ last.snapPaid # "set"
   /\ invoices[last.inv].paidInFullAt = "set"
   /\ invoices[last.inv].requests = last.snapReqs)
    => \A k \in 1..Len(last.snapReqs) : requests[last.snapReqs[k]].paidAt

\* The payments on invoice i made by payment create whose charge succeeded:
\* those that hold a transaction.
ChargedPayers(i) ==
  {p.payingUser : p \in {q \in PaymentsOf(i) : ~q.outside /\ Len(q.transactions) > 0}}

\* C18: when no call is running and no write is outstanding, an invoice each
\* of whose paying users has a payment with a successful charge has
\* paidInFullAt set.
C18_AllPaidIsPaidInFull ==
  Quiet =>
    \A i \in InvoiceIds :
      (PayersOf(i) \subseteq ChargedPayers(i)) => invoices[i].paidInFullAt = "set"

\* C19: once a markAsPaid that succeeded has answered and every write has
\* landed, the invoice is paid outside the app and in full, its requests are
\* paid, and every paying user has exactly one payment on it: the one made
\* before, or else one for the user's percentage share of the invoice amount.
C19_MarkAsPaidCompletes ==
  (Quiet /\ last.op = "markAsPaid" /\ last.resp = "ok") =>
    /\ invoices[last.inv].paidOutsideAppAt
    /\ invoices[last.inv].paidInFullAt = "set"
    /\ \A k \in 1..Len(last.snapReqs) : requests[last.snapReqs[k]].paidAt
    /\ \A k \in 1..Len(last.snapPU) :
         LET mine == {p \in PaymentsOf(last.inv) : p.payingUser = last.snapPU[k].user} IN
         /\ Cardinality(mine) = 1
         /\ \A p \in mine :
              p.outside => p.amount = ownerPercentage(last.snapPU[k].percentage, last.snapAmount)

----------------------------------------------------------------------------
(* InvoiceController.create (invoice.controller.js) *)

InvoiceCreators == {"sp", "ra"}
\* The _requests of a create body: populated requests as stored.
CreateRequestLists == {<<3>>, <<1>>, <<1, 2>>}
\* The trainer of every horse: who pays when the horse has no owners.
HorseTrainer == "u2"

\* Lines 369-374: the requests of the body whose main service provider is not
\* the caller; respondWithError is called for each one and nothing returns.
NotOwnRequests(user, breqs) ==
  {k \in 1..Len(breqs) : requests[breqs[k]].serviceProvider # user}

RECURSIVE BodyTotal(_)
BodyTotal(breqs) ==
  IF breqs = <<>> THEN 0 ELSE requests[Head(breqs)].total + BodyTotal(Tail(breqs))

\* Lines 380-403: the invoice built from the body and the horse (no horse of
\* the model is leased).
NewInvoice(user, breqs, h) ==
  [serviceProvider |-> user,
   horse |-> h,
   requests |-> breqs,
   amount |-> BodyTotal(breqs),
   reassignees |-> {requests[breqs[k]].reassignedTo :
                      k \in {j \in 1..Len(breqs) : requests[breqs[j]].reassignedTo # None}},
   payingUsers |-> IF Len(horses[h].owners) = 0
                     THEN <<[user |-> HorseTrainer, percentage |-> 100]>>
                     ELSE horses[h].owners]

\* Lines 440-446: who gets the push notification of a new invoice.
NotificationRecipients(inv) ==
  {inv.payingUsers[k].user : k \in 1..Len(inv.payingUsers)}

\* Lines 364-512. The first respondWithError sends the 422 answer and the
\* handler goes on; a second one throws on the answer already sent, and so
\* does the final respondWithResult: both land in the catch block, after the
\* answer.
InvoiceCreate(user, breqs, h) ==
  /\ ops < MaxOps
  /\ ops' = ops + 1
  /\ LET f == [Idle EXCEPT !.op = "invoiceCreate", !.U = user, !.snapReqs = breqs]
         refused == NotOwnRequests(user, breqs)
         resp(r) == IF refused # {} THEN "err:permission" ELSE r
     IN
     IF Cardinality(refused) > 1 \/ ~horses[h].exists
       THEN \* thrown before Invoice.create: by the second respondWithError, or
            \* by horse._owners of a horse that is not found
            /\ Answer(f, resp("exception"))
            /\ UNCHANGED <<created, pushes, pending>>
       ELSE /\ created' = created \cup {NewInvoice(user, breqs, h)}
            /\ pending' = pending \cup {Write("reqAdded", breqs[k]) : k \in 1..Len(breqs)}
            /\ pushes' = pushes \cup {NotificationRecipients(NewInvoice(user, breqs, h))}
            /\ Answer(f, resp("ok"))
  /\ UNCHANGED <<call, csv, horses, hresp, requests, invoices, payments, nextPid>>

InvoiceCreateStep ==
  \E user \in InvoiceCreators, breqs \in CreateRequestLists, h \in HorseIds :
    InvoiceCreate(user, breqs, h)

\* Invoice create on the horses that horse create has stored.
NextInvoiceCreate ==
  \/ HorseCreateStep
  \/ InvoiceCreateStep
  \/ FlushStep

SpecInvoiceCreate == Init /\ [][NextInvoiceCreate]_vars

\* C20: an invoice create by a user who is not the main service provider of
\* every request in the body is answered 'You do not have permission to create
\* this invoice.', stores no invoice, starts no addedToInvoice write and sends
\* no notification.
C20_RefusedCreateStoresNothing ==
  [][(last'.op = "invoiceCreate" /\ ops' = ops + 1
        /\ NotOwnRequests(last'.U, last'.snapReqs) # {})
       => /\ last'.resp = "err:permission"
          /\ created' = created
          /\ pending' = pending
          /\ pushes' = pushes]_vars

RECURSIVE StoredTotal(_)
StoredTotal(q) ==
  IF q = <<>> THEN 0 ELSE requests[Head(q)].total + StoredTotal(Tail(q))

\* C21: every stored invoice that is neither deleted nor paid has as amount the
\* sum of the stored totals of the requests it references.
C21_AmountIsSumOfRequests ==
  \A i \in InvoiceIds :
    (~invoices[i].deletedAt /\ invoices[i].paidInFullAt # "set"
       /\ ~invoices[i].paidOutsideAppAt)
      => invoices[i].amount = StoredTotal(invoices[i].requests)

\* The requests a list of request ids names.
ReferencedBy(q) == {q[k] : k \in 1..Len(q)}

\* C22: no request is referenced by two invoices that are both not deleted:
\* an invoice that create has stored references no request of a stored, not
\* deleted invoice and no request of another created invoice (create stores
\* nothing for a request that is already added to an invoice).
C22_NoRequestOnTwoInvoices ==
  \A c \in created :
    /\ \A i \in InvoiceIds :
         ~invoices[i].deletedAt
           => ReferencedBy(c.requests) \cap ReferencedBy(invoices[i].requests) = {}
    /\ \A d \in created \ {c} :
         ReferencedBy(c.requests) \cap ReferencedBy(d.requests) = {}

----------------------------------------------------------------------------
(* PaymentController.create: the amounts of the transfers and of the charge.
   Request totals and tips are whole cents; a share is kept in hundredths of
   a cent and the running total in ten-thousandths, so that no fraction the
   code computes is lost before it rounds. *)

MaxSplitRequests == 2
SplitPercents == {33, 50, 60, 100}
SplitTotals == {1, 5, 101, 200}
SplitTips == {0, 1, 100}
\* STRIPE_SERVICE_FEE_PERCENTAGE is read from the environment.
FeePercents == {0, ServiceFeePercent}

SplitCalls ==
  [op : {"split"}, pct : SplitPercents, tip : SplitTips, fee : FeePercents,
   totals : UNION {[1..n -> SplitTotals] : n \in 1..MaxSplitRequests},
   done : {FALSE}, transfers : {<<>>}, charge : {0}]

\* Number.prototype.toFixed: n/d rounded to the nearest integer.  A value
\* half way between two integers is held as the double nearest to it, which
\* lies above or below: either rounding can come out.
RoundTo(n, d, up) ==
  IF 2 * (n % d) > d \/ (2 * (n % d) = d /\ up) THEN (n \div d) + 1 ELSE n \div d

\* Lines 435 and 468: ownerPercentage of the request total, rounded to cents.
TransferCents(pct, total, up) == RoundTo(pct * total, 100, up)

\* Lines 429-490: one transfer per request, then the tip's when the payer's
\* share of the tip (line 377) is greater than 0.
SplitTransfers(c, up) ==
  [k \in 1..Len(c.totals) |-> TransferCents(c.pct, c.totals[k], up)]
    \o (IF c.pct * c.tip > 0 THEN <<TransferCents(c.pct, c.tip, up)>> ELSE <<>>)

\* Lines 435-444 and 480: the running total, in ten-thousandths of a cent:
\* each share plus its service fee, plus the share of the tip.
RECURSIVE SplitRunningTotal(_, _, _)
SplitRunningTotal(pct, fee, q) ==
  IF q = <<>> THEN 0
  ELSE pct * Head(q) * (100 + fee) + SplitRunningTotal(pct, fee, Tail(q))

\* Line 496: the amount of the charge, the running total rounded to cents.
ChargeCents(c, up) ==
  RoundTo(SplitRunningTotal(c.pct, c.fee, c.totals) + c.pct * c.tip * 100, 10000, up)

\* Lines 428-500: the handler computes the transfers and the charge.
SplitCharge(up) ==
  /\ call.op = "split"
  /\ ~call.done
  /\ call' = [call EXCEPT !.done = TRUE,
                          !.transfers = SplitTransfers(call, up),
                          !.charge = ChargeCents(call, up)]
  /\ UNCHANGED <<horses, hresp, requests, invoices, payments, tasks, last, pending,
                 nextPid, ops, created, pushes, csv>>

SplitChargeStep == \E up \in BOOLEAN : SplitCharge(up)

InitSplit == InitStore /\ csv = NoCsv /\ call \in SplitCalls
NextSplit == SplitChargeStep
SpecSplit == InitSplit /\ [][NextSplit]_vars

RECURSIVE SumOf(_)
SumOf(q) == IF q = <<>> THEN 0 ELSE Head(q) + SumOf(Tail(q))

\* C23: for request totals and a tip in whole cents and a service fee of at
\* least 0, the transfer amounts computed under a charge (each request's share
\* rounded to cents, plus the tip's) add up to no more than the amount of the
\* charge.
C23_TransfersWithinCharge ==
  (call.op = "split" /\ call.done) => SumOf(call.transfers) <= call.charge

----------------------------------------------------------------------------
(* InvoiceController.index and getTotalForUser (invoice.controller.js) *)

IndexUsers ==
  {[id |-> "u1", roles |-> {HORSE_MANAGER}],
   [id |-> "u2", roles |-> {HORSE_MANAGER}],
   [id |-> "u3", roles |-> {HORSE_MANAGER}],
   [id |-> "sp", roles |-> {SERVICE_PROVIDER}],
   [id |-> "ra", roles |-> {SERVICE_PROVIDER}],
   [id |-> "rb", roles |-> {SERVICE_PROVIDER}]}

\* What has happened to a stored invoice before the call.
IndexStates == {"open", "deleted", "paid"}

\* The Request collection at the time of the call: request 1 was done by
\* the main service provider or was reassigned to rb.
IndexRequests == {[InitRequests EXCEPT ![1].reassignedTo = u] : u \in {None, "rb"}}

\* The Invoice collection at the time of the call; _reassignees is as
\* getInvoiceReassignees set it from the requests when the invoice was created.
IndexInvoices(reqs) ==
  {[i \in InvoiceIds |->
      [InitInvoices[i] EXCEPT
         !.deletedAt = (st[i] = "deleted"),
         !.paidInFullAt = IF st[i] = "paid" THEN "set" ELSE "unset",
         !.reassignees = {reqs[r].reassignedTo : r \in ReferencedBy(InitInvoices[i].requests)} \ {None}]] :
     st \in [InvoiceIds -> IndexStates]}

IndexCalls ==
  [op : {"index"}, user : IndexUsers, horseManager : BOOLEAN, serviceProvider : BOOLEAN,
   outstanding : BOOLEAN, complete : BOOLEAN, done : {FALSE}, resp : {"none"},
   found : {{}}]

\* Lines 200-212: the part of the query on the paid dates; a null in a query
\* matches a field that is null or not set.
IndexStatusMatches(c, inv) ==
  IF c.outstanding
    THEN inv.paidInFullAt # "set" /\ ~inv.paidOutsideAppAt
  ELSE IF c.complete
    THEN inv.paidInFullAt = "set" \/ inv.paidOutsideAppAt
  ELSE TRUE

\* Lines 218-221: the horse manager's condition.
HorseManagerQuery(user, inv) ==
  \/ \E k \in 1..Len(inv.payingUsers) : inv.payingUsers[k].user = user.id
  \/ \E a \in inv.approvals : a.approver = user.id

\* Lines 238-239 and 244-245: the service provider's condition.
ServiceProviderQuery(user, inv) ==
  inv.serviceProvider = user.id \/ user.id \in inv.reassignees

\* Lines 217-249: the part of the query on the caller.  With complete the
\* conditions are pushed onto $and; with outstanding each is assigned to $or,
\* the later one replacing the earlier; with neither nothing is added.
IndexRoleMatches(c, inv) ==
  IF c.complete
    THEN /\ c.horseManager => HorseManagerQuery(c.user, inv)
         /\ c.serviceProvider => ServiceProviderQuery(c.user, inv)
  ELSE IF c.outstanding
    THEN IF c.serviceProvider THEN ServiceProviderQuery(c.user, inv)
         ELSE c.horseManager => HorseManagerQuery(c.user, inv)
  ELSE TRUE

\* Lines 224 and 234: query.$and exists only when the complete branch of
\* line 203 was taken; the push on it throws otherwise.
IndexThrows(c) ==
  c.outstanding /\ c.complete /\ (c.horseManager \/ c.serviceProvider)

\* Lines 195-249: the query.
IndexQuery(c) ==
  {i \in InvoiceIds :
     /\ ~invoices[i].deletedAt
     /\ IndexStatusMatches(c, invoices[i])
     /\ IndexRoleMatches(c, invoices[i])}

\* Lines 280-291: the requests of an invoice the caller gets to see.
VisibleRequests(user, inv) ==
  IF isManager(user) \/ user.id = inv.serviceProvider
    THEN inv.requests
    ELSE SelectSeq(inv.requests, LAMBDA r : requests[r].reassignedTo = user.id)

\* Lines 112-118: the condition of line 113 is
\*   request._reassignedTo && String(user._id === String(request._reassignedTo._id))
\* and String of a boolean is 'true' or 'false', both truthy: every request
\* that is reassigned at all is added.
RECURSIVE ReassignedSum(_, _)
ReassignedSum(user, q) ==
  IF q = <<>> THEN 0
  ELSE (IF requests[Head(q)].reassignedTo # None THEN requests[Head(q)].total ELSE 0)
         + ReassignedSum(user, Tail(q))

\* The sum over the requests whose _reassignedTo is the user.
RECURSIVE ReassignedSumOwn(_, _)
ReassignedSumOwn(user, q) ==
  IF q = <<>> THEN 0
  ELSE (IF requests[Head(q)].reassignedTo = user.id THEN requests[Head(q)].total ELSE 0)
         + ReassignedSumOwn(user, Tail(q))

\* Lines 105-121
getTotalForUser(inv, user) ==
  IF user.id = inv.serviceProvider \/ isManager(user)
    THEN inv.amount + inv.tip
    ELSE ReassignedSum(user, inv.requests)

\* Lines 183-310: the invoices answered, each with the requests the caller
\* sees and totalForUser.
InvoiceIndex ==
  /\ call.op = "index"
  /\ ~call.done
  /\ call' =
       IF IndexThrows(call)
         THEN [call EXCEPT !.done = TRUE, !.resp = "exception"]
         ELSE [call EXCEPT !.done = TRUE, !.resp = "ok",
                 !.found = {[id |-> i,
                             requests |-> VisibleRequests(call.user, invoices[i]),
                             totalForUser |-> getTotalForUser(invoices[i], call.user)] :
                              i \in IndexQuery(call)}]
  /\ UNCHANGED <<horses, hresp, requests, invoices, payments, tasks, last, pending,
                 nextPid, ops, created, pushes, csv>>

InitIndex ==
  /\ horses = [h \in HorseIds |-> NoHorse]
  /\ hresp = [op |-> "none", horse |-> 0, offTotal |-> FALSE, status |-> "none"]
  /\ requests \in IndexRequests
  /\ invoices \in IndexInvoices(requests)
  /\ payments = {}
  /\ tasks = [s \in Slots |-> Idle]
  /\ last = Idle
  /\ pending = {}
  /\ nextPid = 1
  /\ ops = 0
  /\ created = {}
  /\ pushes = {}
  /\ csv = NoCsv
  /\ call \in IndexCalls

NextIndex == InvoiceIndex
SpecIndex == InitIndex /\ [][NextIndex]_vars

\* C24: invoice index with the horseManager flag answers only non-deleted
\* invoices on which the caller is a paying user or a payment approver, and with
\* the serviceProvider flag only non-deleted invoices on which the caller is
\* the main service provider or a reassignee, whatever the outstanding and
\* complete flags; a caller who is only a reassignee of an invoice gets only
\* the requests reassigned to them.
C24_IndexOnlyOwnInvoices ==
  (call.op = "index" /\ call.done /\ call.resp = "ok") =>
    \A e \in call.found :
      /\ ~invoices[e.id].deletedAt
      /\ call.horseManager => HorseManagerQuery(call.user, invoices[e.id])
      /\ call.serviceProvider => ServiceProviderQuery(call.user, invoices[e.id])
      /\ (~isManager(call.user) /\ call.user.id # invoices[e.id].serviceProvider)
           => \A k \in 1..Len(e.requests) : requests[e.requests[k]].reassignedTo = call.user.id

----------------------------------------------------------------------------
(* RequestController.dismiss and updateStatus, await by await
   (request.controller.js).  No handler of this part changes a request's
   _serviceProvider or _reassignedTo, so the stored values are the loaded ones. *)

\* Lines 1093-1094, 1113-1114, 1128-1129: the status adds the user to
\* _dismissedBy and the loaded document does not hold the user yet.
PushNeeded(request, status, user) ==
  /\ \/ status = "decline"
     \/ status = "leave" /\ (isMainServiceProvider(user, request)
                               \/ isReassignedServiceProvider(user, request))
  /\ user \notin SeqToSet(request.dismissedBy)

\* Lines 1199-1213: findOne, then findIndex on the loaded _dismissedBy.
DismissLoad(s, id, user) ==
  /\ CanStart(s)
  /\ ops' = ops + 1
  /\ LET f == [Idle EXCEPT !.op = "dismiss", !.req = id, !.U = user] IN
     IF id \notin RequestIds
       THEN Finish(s, f, "notfound")
     ELSE IF user \in SeqToSet(requests[id].dismissedBy)
       THEN Finish(s, f, "ok")
     ELSE Continue(s, [f EXCEPT !.pc = "push",
                                !.snapDismissed = requests[id].dismissedBy])
  /\ UNCHANGED <<call, created, pushes, csv, horses, hresp, requests, invoices, payments,
                 pending, nextPid>>

\* Lines 1206-1211: _dismissedBy.push and the awaited save.  The push of a
\* Mongoose array is saved as a $push on the stored array.
DismissSave(s) ==
  /\ tasks[s].op = "dismiss"
  /\ tasks[s].pc = "push"
  /\ requests' = [requests EXCEPT ![tasks[s].req].dismissedBy = Append(@, tasks[s].U)]
  /\ Finish(s, tasks[s], "ok")
  /\ UNCHANGED <<call, created, pushes, csv, horses, hresp, invoices, payments, pending,
                 nextPid, ops>>

\* Lines 1068-1074: findOne.
StatusLoad(s, id, status, user) ==
  /\ CanStart(s)
  /\ ops' = ops + 1
  /\ LET f == [Idle EXCEPT !.op = "updateStatus", !.req = id, !.U = user,
                           !.status = status] IN
     IF id \notin RequestIds
       THEN Finish(s, f, "notfound")
       ELSE Continue(s, [f EXCEPT
              !.pc = IF PushNeeded(requests[id], status, user) THEN "push" ELSE "save",
              !.snapDismissed = requests[id].dismissedBy])
  /\ UNCHANGED <<call, created, pushes, csv, horses, hresp, requests, invoices, payments,
                 pending, nextPid>>

\* Lines 1086-1097, 1105-1117, 1121-1132: the save awaited right after the
\* push writes what the handler has set so far and the $push.
StatusPush(s) ==
  /\ tasks[s].op = "updateStatus"
  /\ tasks[s].pc = "push"
  /\ LET f == tasks[s] IN
     /\ requests' =
          [requests EXCEPT ![f.req] =
             [@ EXCEPT !.dismissedBy = Append(@, f.U),
                       !.declinedAt = TRUE,
                       !.declinedByHeadServiceProvider =
                          IF f.status = "leave" /\ isMainServiceProvider(f.U, requests[f.req])
                            THEN TRUE ELSE @,
                       !.acceptedAt =
                          IF f.status = "leave" /\ ~isMainServiceProvider(f.U, requests[f.req])
                            THEN FALSE ELSE @]]
     /\ Continue(s, [f EXCEPT !.pc = "rest"])
  /\ UNCHANGED <<call, created, pushes, csv, horses, hresp, invoices, payments, pending,
                 nextPid, ops>>

\* Line 1134: the last save writes what was set since the previous one; the
\* handler then answers.
StatusSave(s) ==
  /\ tasks[s].op = "updateStatus"
  /\ tasks[s].pc \in {"save", "rest"}
  /\ LET f == tasks[s]
         r == requests[f.req]
         main == isMainServiceProvider(f.U, r)
     IN
     /\ requests' =
          [requests EXCEPT ![f.req] =
             IF f.pc = "rest"
               THEN [r EXCEPT !.declinedByHeadServiceProvider =
                                 IF f.status = "decline" /\ main THEN TRUE ELSE @]
               ELSE StatusUpdated(r, f.status, f.U)]
     /\ Finish(s, f, "ok")
  /\ UNCHANGED <<call, created, pushes, csv, horses, hresp, invoices, payments, pending,
                 nextPid, ops>>

DismissLoadStep ==
  \E s \in Slots, id \in RequestIdInputs, user \in RequestUsers : DismissLoad(s, id, user)
DismissSaveStep == \E s \in Slots : DismissSave(s)
StatusLoadStep ==
  \E s \in Slots, id \in RequestIdInputs, status \in Statuses, user \in RequestUsers :
     StatusLoad(s, id, status, user)
StatusPushStep == \E s \in Slots : StatusPush(s)
StatusSaveStep == \E s \in Slots : StatusSave(s)

\* dismiss and updateStatus calls, interleaved at their awaits.
NextDismiss ==
  \/ DismissLoadStep
  \/ DismissSaveStep
  \/ StatusLoadStep
  \/ StatusPushStep
  \/ StatusSaveStep

SpecDismiss == Init /\ [][NextDismiss]_vars

\* C26: after any interleaving of dismiss and updateStatus calls no user is
\* twice in a request's _dismissedBy, and a step that changes _dismissedBy
\* appends the user of a dismiss, decline or leave call on that request.
C26_DismissedByOnce ==
  [][\A r \in RequestIds :
       /\ \A j, k \in 1..Len(requests'[r].dismissedBy) :
            requests'[r].dismissedBy[j] = requests'[r].dismissedBy[k] => j = k
       /\ requests'[r].dismissedBy # requests[r].dismissedBy
            => \E s \in Slots :
                 /\ tasks[s].req = r
                 /\ tasks[s].op = "dismiss" \/ tasks[s].status \in {"decline", "leave"}
                 /\ requests'[r].dismissedBy = Append(requests[r].dismissedBy, tasks[s].U)]_vars

====
